---- MODULE Spec2Model ----
(***************************************************************************)
(* The setup engine of scripts/iob_module.py: the class attributes of the  *)
(* descriptor types (looked up through the superclass chain, as Python     *)
(* does), the recursive __setup / _setup_submodules / _post_setup calls    *)
(* as an explicit call stack, and the files of the build directory.        *)
(***************************************************************************)
EXTENDS Integers, Sequences, FiniteSets, TLC

\* ---------------------------------------------------------------- bounds
\* Longest submodule_list a descriptor declares.
MaxSub == 2

\* ------------------------------------------------------ descriptor types
\* The descriptor that setup_as_top_module is called on.
Top == "t"
\* The descriptor types of the run: t is the top, b is a subclass of a,
\* x is a leaf that depends back on a, iob_ctls is the bus-control module.
Types == {"t", "a", "b", "x", "iob_ctls"}
Base == "iob_module"
\* class b(a), every other class derives from iob_module directly (_copy_srcs
\* walks such chains: "every subclass in between iob_module and cls").
Parent == [c \in Types |-> IF c = "b" THEN "a" ELSE Base]

\* Value of a class attribute that is declared as None in iob_module.
None == <<"None">>
\* Marker of a class that does not define an attribute itself.
Unset == "unset"

Purposes == {"hardware", "simulation", "fpga"}
PURPOSE_DIRS == [p \in Purposes |->
    CASE p = "hardware" -> "hardware/src"
      [] p = "simulation" -> "hardware/simulation/src"
      [] p = "fpga" -> "hardware/fpga/src"]

\* The exception that ended the run: its kind and the class its message names.
NoError == [kind |-> "none", cls |-> "-"]
Error(k, c) == [kind |-> k, cls |-> c]

Last(s) == s[Len(s)]
SeqsUpTo(S, n) == UNION {[1..k -> S] : k \in 0..n}

\* ------------------------------------------------- declared descriptors
\* One submodule_list entry. kind: a descriptor type ("module"), an inline
\* interface request ("dict"), a class that is no iob_module ("other_class")
\* or no class at all ("non_class"). tuple: the entry is (submodule, options).
\* decl is the purpose the author wrote in options ("absent": none), purpose
\* is what the options dictionary holds now.
Entry(k, t, tup, p) ==
    [kind |-> k, target |-> t, tuple |-> tup, decl |-> p, purpose |-> p]

TopEntries ==
    {Entry("module", t, FALSE, "absent") : t \in {"a", "b"}}
    \cup {Entry("module", t, TRUE, p) : t \in {"a", "b"}, p \in {"simulation", "fpga"}}
    \cup {Entry("dict", "iob_wire", TRUE, "simulation"),
          Entry("other_class", "-", FALSE, "absent")}

DepEntries ==
    {Entry("module", "x", FALSE, "absent"),
     Entry("module", "x", TRUE, "absent"),
     Entry("module", "x", TRUE, "hardware"),
     Entry("module", "x", TRUE, "simulation"),
     Entry("dict", "iob_wire", FALSE, "absent"),
     Entry("dict", "iob_wire", TRUE, "simulation"),
     Entry("other_class", "-", FALSE, "absent"),
     Entry("other_class", "-", TRUE, "simulation"),
     Entry("non_class", "-", FALSE, "absent")}

Group(n, rs) == [name |-> n, regs |-> rs]
RegChoices ==
    {<<Group("general", <<"R0">>)>>,
     <<Group("general", <<"VERSION">>)>>,
     <<Group("other", <<"R0">>)>>,
     <<Group("other", <<"VERSION">>)>>}

Decl(s, r, c) == [sub |-> s, regs |-> r, confs |-> c]

\* What the hooks of init_attributes (_create_submodules_list, _setup_confs,
\* _setup_regs) leave in the lists of class c: the descriptor's declaration.
DeclChoices(c) ==
    CASE c = Top -> {Decl(s, <<>>, <<"DATA_W">>) : s \in SeqsUpTo(TopEntries, MaxSub)}
      [] c = "a" -> {Decl(s, <<>>, <<>>) : s \in SeqsUpTo(DepEntries, MaxSub - 1)}
                    \cup {Decl(<<Entry("module", "x", FALSE, "absent")>>, r, <<"DATA_W">>) :
                             r \in RegChoices}
      [] c = "b" -> {Decl(<<>>, <<>>, <<>>)}
      [] c = "x" -> {Decl(<<Entry("module", "a", FALSE, "absent")>>, <<>>, <<>>)}
      [] OTHER -> {Decl(<<>>, <<>>, <<>>)}

\* ----------------------------------------------------------------- state
VARIABLES
    setup_purpose,          \* cls._setup_purpose of each class (None or a list)
    initialized_attributes, \* cls._initialized_attributes set on the class itself
    is_top_module,          \* cls.is_top_module set on the class itself, or Unset
    build_dir,              \* cls.build_dir of each class and of iob_module, or Unset
    submodule_list,         \* cls.submodule_list set on the class itself
    confs, regs, ios, block_groups,   \* the declarative lists set on the class itself
    files,                  \* the files of the build directory
    stack,                  \* the pending calls of __setup, innermost first
    status,                 \* "start", "running", "done" or "error"
    err,                    \* the exception that ended the run, or NoError
    generated,              \* the calls of __generate made so far
    ran,                    \* <<cls, purpose>> of every setup body started
    skipped,                \* <<cls, purpose>> of every request that returned at once
    init_runs,              \* how often init_attributes initialized each class
    root_assigns,           \* the classes that assigned iob_module.build_dir, in order
    sub_log,                \* what _setup_submodules did with each entry it met
    body_runs,              \* the purposes each class's setup body ran for, in order
    build_dir_runs,         \* the calls of __create_build_dir, with the state they found
    flows,                  \* cls.flows of each class
    document_dirs,          \* the classes whose setup_dir has a document directory
    \* update_dict_list
    dict_list,              \* the list being updated
    new_items,              \* the items to merge into it
    item_idx,               \* the item the outer loop is at; 0 before the call
    merge_args,             \* the two lists as they were when the call started
    \* createSystem.py
    template_file,          \* the lines of the template on disk, or NoFile
    systemv_file,           \* the lines of the produced file, or NoFile
    peripherals_list,       \* the instances handed to create_systemv
    internal_wires,         \* the internal wires handed to create_systemv (None: <<>>)
    template_contents,      \* the list of lines being edited
    included_peripherals,   \* the types insert_header_files has met, in order
    start_index,            \* where the lines of the current instance are inserted
    first_reversed_signal,  \* the flag that withholds the separator comma
    cs_pc,                  \* the position inside create_systemv
    instance_idx,           \* the instance the current loop is at
    signal_idx,             \* the signal the current loop is at
    cs_err,                 \* the exception create_systemv ended with, or NoError
    \* copy_with_rename
    rename_args,            \* old and new core name, and the source file
    rename_dst,             \* the destination file: its name and its content
    rename_pc               \* "idle", "call" or "copied"

classVars == <<setup_purpose, initialized_attributes, is_top_module, build_dir,
               submodule_list, confs, regs, ios, block_groups>>
histVars == <<generated, ran, skipped, init_runs, root_assigns, sub_log, body_runs,
              build_dir_runs>>
\* What the run is given and never assigns.
envVars == <<flows, document_dirs>>
setupVars == <<classVars, files, stack, status, err, histVars>>
mergeVars == <<dict_list, new_items, item_idx, merge_args>>
csVars == <<template_file, systemv_file, peripherals_list, internal_wires,
            template_contents, included_peripherals, start_index,
            first_reversed_signal, cs_pc, instance_idx, signal_idx, cs_err>>
\* What the setup of a descriptor leaves alone.
renameVars == <<rename_args, rename_dst, rename_pc>>
otherVars == <<envVars, mergeVars, csVars, renameVars>>
vars == <<setupVars, envVars, mergeVars, csVars, renameVars>>

\* What the hooks leave in the lists of class c in this run: a top module with
\* the documentation flow may also pin a dependency to the embedded or the
\* documentation purpose.
Declared(c) ==
    DeclChoices(c)
    \cup (IF c = Top /\ "doc" \in flows[c]
          THEN {Decl(<<Entry("module", "a", TRUE, p)>>, <<>>, <<"DATA_W">>) :
                   p \in {"embedded", "documentation"}}
          ELSE {})

\* ------------------------------------------- attribute lookup (the MRO)
\* The class of c's superclass chain whose own value of an attribute is read
\* by cls.<attribute>: the first one that defines it, else iob_module.
RECURSIVE Owner(_, _)
Owner(c, defined) ==
    IF c = Base THEN Base
    ELSE IF c \in defined THEN c ELSE Owner(Parent[c], defined)

SpOwner(c) == Owner(c, {d \in Types : setup_purpose[d] # None})
\* cls._setup_purpose
SetupPurposeOf(c) == IF SpOwner(c) = Base THEN None ELSE setup_purpose[SpOwner(c)]

\* cls._initialized_attributes
InitializedOf(c) == Owner(c, {d \in Types : initialized_attributes[d]}) # Base

\* init_attributes assigns submodule_list, confs, regs, ios and block_groups on
\* the class together with _initialized_attributes, so the class whose lists
\* cls.<list> reads is the first initialized class of the chain. The lists of
\* iob_module are None, which the code only ever tests for truth: <<>> here.
AttrOwner(c) == Owner(c, {d \in Types : initialized_attributes[d]})
SubmoduleListOf(c) == IF AttrOwner(c) = Base THEN <<>> ELSE submodule_list[AttrOwner(c)]
RegsOf(c) == IF AttrOwner(c) = Base THEN <<>> ELSE regs[AttrOwner(c)]
ConfsOf(c) == IF AttrOwner(c) = Base THEN <<>> ELSE confs[AttrOwner(c)]
\* cls.is_top_module
IsTopIn(itm, c) ==
    LET o == Owner(c, {d \in Types : itm[d] # Unset})
    IN  IF o = Base THEN FALSE ELSE itm[o] = "True"
IsTopOf(c) == IsTopIn(is_top_module, c)
\* cls.build_dir
BuildDirIn(bd, c) == bd[Owner(c, {d \in Types : bd[d] # Unset})]
BuildDirOf(c) == BuildDirIn(build_dir, c)

\* ------------------------------------------------------------------ Init
\* A file: whether it is there, and its lines.
NoFile == [exists |-> FALSE, lines |-> <<>>]
FileOf(ls) == [exists |-> TRUE, lines |-> ls]
\* update_dict_list is not running.
MergeIdle ==
    /\ dict_list = <<>> /\ new_items = <<>> /\ item_idx = 0 /\ merge_args = <<>>
\* create_systemv is not running.
SystemvIdle ==
    /\ template_file = NoFile /\ systemv_file = NoFile
    /\ peripherals_list = <<>> /\ internal_wires = <<>>
    /\ template_contents = <<>> /\ included_peripherals = <<>>
    /\ start_index = 0 /\ first_reversed_signal = TRUE
    /\ cs_pc = "idle" /\ instance_idx = 0 /\ signal_idx = 0
    /\ cs_err = NoError

\* copy_with_rename is not running.
RenameIdle == rename_args = <<>> /\ rename_dst = <<>> /\ rename_pc = "idle"

\* The classes as they are defined, before any setup.
InitSetup ==
    /\ setup_purpose = [c \in Types |-> None]
    /\ initialized_attributes = [c \in Types |-> FALSE]
    /\ is_top_module = [c \in Types |-> Unset]
    /\ build_dir = [c \in Types \cup {Base} |->
                       IF c = Base THEN "" ELSE IF c = "x" THEN "x_build" ELSE Unset]
    /\ submodule_list = [c \in Types |-> <<>>]
    /\ confs = [c \in Types |-> <<>>]
    /\ regs = [c \in Types |-> <<>>]
    /\ ios = [c \in Types |-> <<>>]
    /\ block_groups = [c \in Types |-> <<>>]
    /\ files = {}
    /\ stack = <<>>
    /\ status = "start"
    /\ err = NoError
    /\ generated = {}
    /\ ran = {}
    /\ skipped = {}
    /\ init_runs = [c \in Types |-> 0]
    /\ root_assigns = <<>>
    /\ sub_log = {}
    /\ body_runs = [c \in Types |-> <<>>]
    /\ build_dir_runs = <<>>

\* No setup is running; the descriptors of the library declare the simulation
\* flow only.
SetupIdle ==
    /\ InitSetup
    /\ flows = [c \in Types |-> {"sim"}]
    /\ document_dirs = {}

Init ==
    /\ SetupIdle
    /\ MergeIdle
    /\ SystemvIdle
    /\ RenameIdle

\* A top module that declares the documentation flow, with or without a
\* document directory under its setup_dir.
InitDoc ==
    /\ InitSetup
    /\ flows = [c \in Types |-> IF c = Top THEN {"sim", "doc"} ELSE {"sim"}]
    /\ document_dirs \in {{}, {Top}}
    /\ MergeIdle
    /\ SystemvIdle
    /\ RenameIdle

\* --------------------------------------------------------------- helpers
Range(s) == {s[i] : i \in 1..Len(s)}
BoolStr(b) == IF b THEN "True" ELSE "False"
Frame(c, p, top) == [cls |-> c, purpose |-> p, is_top |-> top, pc |-> "setup", idx |-> 0]
\* The frame of the innermost call with its position changed.
At(f, pc, idx) == [f EXCEPT !.pc = pc, !.idx = idx]
\* f"../{cls.name}_{cls.version}"
AutoBuildDir(c) ==
    CASE c = "t" -> "../t_1.0" [] c = "a" -> "../a_1.0" [] c = "b" -> "../b_1.0"
      [] c = "x" -> "../x_1.0" [] OTHER -> "../iob_ctls_1.0"
\* A file of the build directory: from is the class or generator whose content
\* it holds, by the class whose setup wrote it.
File(root, dir, core, stem, from, by) ==
    [root |-> root, dir |-> dir, core |-> core, stem |-> stem, from |-> from, by |-> by]
\* Writing a file replaces the one at the same path.
WriteFile(fs, f) ==
    {g \in fs : ~(g.root = f.root /\ g.dir = f.dir /\ g.core = f.core /\ g.stem = f.stem)}
    \cup {f}

\* ------------------------------------------------------ setup_as_top_module
SetupAsTopModule ==
    /\ status = "start"
    /\ status' = "running"
    /\ stack' = <<Frame(Top, "hardware", TRUE)>>
    /\ UNCHANGED <<classVars, files, err, histVars>>
    /\ UNCHANGED otherVars

\* ------------------------------------------------------------------ __setup
\* The test without its first half: a purpose is never remembered.
AlreadySetup_OnlyHardware(hist, purpose) == "hardware" \in Range(hist)
\* The test without its second half: hardware does not absorb.
AlreadySetup_OnlyPurpose(hist, purpose) == purpose \in Range(hist)

\* The test left out: every request runs the body.
AlreadySetup_Never(hist, purpose) == FALSE

\* "purpose in cls._setup_purpose or 'hardware' in cls._setup_purpose"
AlreadySetup(hist, purpose) ==
    purpose \in Range(hist) \/ "hardware" \in Range(hist)

\* cls._setup_purpose once "if cls._setup_purpose == None: cls._setup_purpose = []"
\* has run: the class that holds the list, and the list.
HistOwner(c) == IF SetupPurposeOf(c) = None THEN c ELSE SpOwner(c)
HistOf(c) == IF SetupPurposeOf(c) = None THEN <<>> ELSE SetupPurposeOf(c)

\* The request returns at once.
SetupReturn ==
    /\ status = "running" /\ stack # <<>>
    /\ LET f == Head(stack)
       IN  /\ f.pc = "setup"
           /\ AlreadySetup(HistOf(f.cls), f.purpose)
           /\ setup_purpose' = [setup_purpose EXCEPT ![HistOwner(f.cls)] = HistOf(f.cls)]
           /\ skipped' = skipped \cup {<<f.cls, f.purpose>>}
           /\ stack' = Tail(stack)
           /\ status' = IF Tail(stack) = <<>> THEN "done" ELSE "running"
    /\ UNCHANGED <<initialized_attributes, is_top_module, build_dir, submodule_list,
                   confs, regs, ios, block_groups, files, err,
                   generated, ran, init_runs, root_assigns, sub_log, body_runs,
                   build_dir_runs>>
    /\ UNCHANGED otherVars

\* Every class that is initialized assigns iob_module.build_dir.
AssignsRoot_Always(c, isTop) == TRUE

\* "if cls.is_top_module:" of init_attributes: who assigns iob_module.build_dir.
AssignsRoot(c, isTop) == isTop

\* "if not cls._setup_purpose:" of __setup: the first setup of the class.
FirstSetup(hist) == hist = <<>>

\* Every first setup creates the build directory.
CreatesBuildDir_EveryFirst(isTop, first) == first

\* "if is_top_module and not cls._setup_purpose: cls.__create_build_dir()"
CreatesBuildDir(isTop, first) == isTop /\ first

\* The setup body starts: init_attributes and __create_build_dir on the first
\* setup, then the purpose is appended. d is what the descriptor's hooks declare.
SetupBegin ==
    /\ status = "running" /\ stack # <<>>
    /\ LET f == Head(stack)
           c == f.cls
           owner == HistOwner(c)
           hist == HistOf(c)
           first == FirstSetup(hist)
           doInit == first /\ ~InitializedOf(c)
       IN  /\ f.pc = "setup"
           /\ ~AlreadySetup(hist, f.purpose)
           /\ is_top_module' =
                  IF first THEN [is_top_module EXCEPT ![c] = BoolStr(f.is_top)]
                  ELSE is_top_module
           \* init_attributes
           /\ initialized_attributes' =
                  IF doInit THEN [initialized_attributes EXCEPT ![c] = TRUE]
                  ELSE initialized_attributes
           /\ init_runs' = IF doInit THEN [init_runs EXCEPT ![c] = @ + 1] ELSE init_runs
           /\ LET setsRoot == doInit /\ AssignsRoot(c, IsTopIn(is_top_module', c))
                  root == IF setsRoot
                          THEN (IF BuildDirOf(c) = "" THEN AutoBuildDir(c) ELSE BuildDirOf(c))
                          ELSE build_dir[Base]
              IN  /\ build_dir' = IF doInit
                                  THEN [build_dir EXCEPT ![Base] = root, ![c] = root]
                                  ELSE build_dir
                  /\ root_assigns' = IF setsRoot THEN Append(root_assigns, c)
                                     ELSE root_assigns
           /\ \E d \in (IF doInit THEN Declared(c) ELSE {Decl(<<>>, <<>>, <<>>)}) :
                  /\ submodule_list' = IF doInit THEN [submodule_list EXCEPT ![c] = d.sub]
                                       ELSE submodule_list
                  /\ regs' = IF doInit THEN [regs EXCEPT ![c] = d.regs] ELSE regs
                  /\ confs' = IF doInit THEN [confs EXCEPT ![c] = d.confs] ELSE confs
           /\ ios' = IF doInit THEN [ios EXCEPT ![c] = <<>>] ELSE ios
           /\ block_groups' = IF doInit THEN [block_groups EXCEPT ![c] = <<>>]
                              ELSE block_groups
           \* __create_build_dir, with its "assert cls.is_top_module"
           /\ build_dir_runs' =
                  IF CreatesBuildDir(f.is_top, first)
                  THEN Append(build_dir_runs, [cls |-> c, is_top |-> f.is_top,
                                               hist |-> hist, ran |-> ran])
                  ELSE build_dir_runs
           /\ IF CreatesBuildDir(f.is_top, first) /\ ~IsTopIn(is_top_module', c)
              THEN /\ err' = Error("not_top_module", c)
                   /\ status' = "error"
                   /\ stack' = <<>>
                   /\ setup_purpose' = [setup_purpose EXCEPT ![owner] = hist]
                   /\ UNCHANGED <<files, ran, body_runs>>
              ELSE /\ files' = IF CreatesBuildDir(f.is_top, first)
                               THEN WriteFile(files,
                                       File(BuildDirIn(build_dir', c), "", "", "Makefile", "LIB", c))
                               ELSE files
                   \* cls._setup_purpose.append(purpose)
                   /\ setup_purpose' =
                          [setup_purpose EXCEPT ![owner] = Append(hist, f.purpose)]
                   /\ ran' = ran \cup {<<c, f.purpose>>}
                   /\ body_runs' = [body_runs EXCEPT ![c] = Append(@, f.purpose)]
                   /\ stack' = <<At(f, "submodules", 1)>> \o Tail(stack)
                   /\ UNCHANGED <<err, status>>
    /\ UNCHANGED <<generated, skipped, sub_log>>
    /\ UNCHANGED otherVars

\* ----------------------------------------------------- get_setup_purpose
\* The oldest purpose of the list instead of the latest.
GetSetupPurpose_First(c) == Head(HistOf(c))

\* cls.get_setup_purpose(): the latest purpose of the list cls reads.
GetSetupPurpose(c) == Last(HistOf(c))

\* ------------------------------------------------------- _setup_submodules
Cur == Head(stack)
InLoop ==
    /\ status = "running" /\ stack # <<>>
    /\ Cur.pc = "submodules"
    /\ Cur.idx <= Len(SubmoduleListOf(Cur.cls))
CurEntry == SubmoduleListOf(Cur.cls)[Cur.idx]

\* setup_options["purpose"] after "if 'purpose' not in setup_options"
DefaultedPurpose(e) == IF e.purpose = "absent" THEN "hardware" ELSE e.purpose
\* The loop without its "continue".
SkipsEntry_Never(isTop, p) == FALSE

\* "if not cls.is_top_module and setup_options['purpose'] != 'hardware': continue"
SkipsEntry(isTop, p) == ~isTop /\ p # "hardware"
\* "if setup_options['purpose'] == 'hardware': ... = cls.get_setup_purpose()"
EffectivePurpose(p, current) == IF p = "hardware" THEN current ELSE p
\* setup_options is the dictionary of the tuple itself (submodule[1]), so what
\* the loop stores in it stays in the list; a bare entry gets a fresh one.
StoreOptions(e, p) == IF e.tuple THEN [e EXCEPT !.purpose = p] ELSE e

\* The purpose the entry is set up or generated for, when it is not skipped.
EntryPurpose == EffectivePurpose(DefaultedPurpose(CurEntry), GetSetupPurpose(Cur.cls))
EntrySkipped == SkipsEntry(IsTopOf(Cur.cls), DefaultedPurpose(CurEntry))

LogEntry(outcome, p) ==
    [cls |-> Cur.cls, body |-> Cur.purpose, idx |-> Cur.idx, kind |-> CurEntry.kind,
     target |-> CurEntry.target, decl |-> CurEntry.decl, is_top |-> IsTopOf(Cur.cls),
     outcome |-> outcome, purpose |-> p]
\* The list of the class that cls.submodule_list reads, with the entry's options
\* as the loop leaves them.
StoreEntry(p) ==
    [submodule_list EXCEPT ![AttrOwner(Cur.cls)][Cur.idx] = StoreOptions(CurEntry, p)]

\* get_purpose_dir: "assert purpose in cls.PURPOSE_DIRS"
KnownPurpose(p) == p \in DOMAIN PURPOSE_DIRS
GetPurposeDir(p) == PURPOSE_DIRS[p]

\* The entry is passed over ("continue").
SubmoduleSkip ==
    /\ InLoop /\ EntrySkipped
    /\ submodule_list' = StoreEntry(DefaultedPurpose(CurEntry))
    /\ sub_log' = sub_log \cup {LogEntry("skip", "-")}
    /\ stack' = <<At(Cur, "submodules", Cur.idx + 1)>> \o Tail(stack)
    /\ UNCHANGED <<setup_purpose, initialized_attributes, is_top_module, build_dir,
                   confs, regs, ios, block_groups, files, status, err,
                   generated, ran, skipped, init_runs, root_assigns, body_runs,
                   build_dir_runs>>
    /\ UNCHANGED otherVars

\* type(_submodule) == dict: cls.__generate(_submodule, **setup_options)
SubmoduleGenerate ==
    /\ InLoop /\ ~EntrySkipped /\ CurEntry.kind = "dict"
    /\ submodule_list' = StoreEntry(EntryPurpose)
    /\ IF KnownPurpose(EntryPurpose)
       THEN /\ generated' = generated \cup
                   {[cls |-> Cur.cls, interface |-> CurEntry.target,
                     purpose |-> EntryPurpose]}
            /\ sub_log' = sub_log \cup {LogEntry("generate", EntryPurpose)}
            /\ stack' = <<At(Cur, "submodules", Cur.idx + 1)>> \o Tail(stack)
            /\ UNCHANGED <<status, err>>
       ELSE /\ err' = Error("unknown_purpose", "-")
            /\ status' = "error"
            /\ stack' = <<>>
            /\ UNCHANGED <<generated, sub_log>>
    /\ UNCHANGED <<setup_purpose, initialized_attributes, is_top_module, build_dir,
                   confs, regs, ios, block_groups, files,
                   ran, skipped, init_runs, root_assigns, body_runs,
                   build_dir_runs>>
    /\ UNCHANGED otherVars

\* issubclass(_submodule, iob_module): _submodule.__setup(**setup_options)
SubmoduleSetup ==
    /\ InLoop /\ ~EntrySkipped /\ CurEntry.kind = "module"
    /\ submodule_list' = StoreEntry(EntryPurpose)
    /\ sub_log' = sub_log \cup {LogEntry("setup", EntryPurpose)}
    /\ stack' = <<Frame(CurEntry.target, EntryPurpose, FALSE),
                  At(Cur, "submodules", Cur.idx + 1)>> \o Tail(stack)
    /\ UNCHANGED <<setup_purpose, initialized_attributes, is_top_module, build_dir,
                   confs, regs, ios, block_groups, files, status, err,
                   generated, ran, skipped, init_runs, root_assigns, body_runs,
                   build_dir_runs>>
    /\ UNCHANGED otherVars

\* Neither a dictionary nor a subclass of iob_module: the "Unknown type"
\* exception, which names cls, for a class; the TypeError of issubclass for a
\* value that is no class.
SubmoduleUnknown ==
    /\ InLoop /\ ~EntrySkipped /\ CurEntry.kind \in {"other_class", "non_class"}
    /\ submodule_list' = StoreEntry(EntryPurpose)
    /\ err' = IF CurEntry.kind = "other_class" THEN Error("unknown_type", Cur.cls)
              ELSE Error("type_error", "-")
    /\ sub_log' = sub_log \cup {LogEntry(err'.kind, EntryPurpose)}
    /\ status' = "error"
    /\ stack' = <<>>
    /\ UNCHANGED <<setup_purpose, initialized_attributes, is_top_module, build_dir,
                   confs, regs, ios, block_groups, files,
                   generated, ran, skipped, init_runs, root_assigns, body_runs,
                   build_dir_runs>>
    /\ UNCHANGED otherVars

\* --------------------------------------------------------------- _copy_srcs
\* cls.__mro__[index(iob_module)::-1] without iob_module, whose setup_dir is
\* empty: the classes from the most generic ancestor down to cls.
\* The chain the other way round: from cls up to its most generic ancestor.
RECURSIVE Chain_SpecificFirst(_)
Chain_SpecificFirst(c) ==
    IF c = Base THEN <<>> ELSE <<c>> \o Chain_SpecificFirst(Parent[c])

RECURSIVE Chain(_)
Chain(c) == IF c = Base THEN <<>> ELSE Append(Chain(Parent[c]), c)

\* setup_dir of a class: every descriptor type of the run has its own, but x,
\* which keeps the empty setup_dir of iob_module.
SetupDir(m) == IF m = "x" THEN "" ELSE m
\* The files under m's setup_dir: dir is the entry of dir_list they are under,
\* path their directory inside it, core the descriptor name in the file name
\* ("" when it has none).
SrcFile(dir, path, core, stem) == [dir |-> dir, path |-> path, core |-> core, stem |-> stem]
SrcTree(m) ==
    {SrcFile("hardware/src", "", m, "core.v"), SrcFile("hardware/src", "", "", "common.vh")}
    \cup (IF m = Top THEN {SrcFile("hardware/simulation", "src", "", "common.vh"),
                           SrcFile("hardware/simulation", "src", m, "tb.v")}
          ELSE {})
\* os.path.isdir(os.path.join(module_class.setup_dir, directory))
IsDir(m, dir) == \E s \in SrcTree(m) : s.dir = dir

\* dir_list of _copy_srcs
DirList(isTop) ==
    <<"hardware/src", "software">>
    \o (IF isTop THEN <<"hardware/simulation", "hardware/fpga", "hardware/syn",
                        "hardware/lint">>
        ELSE <<>>)
DestDir(dst, path) == IF path = "" THEN dst ELSE "hardware/simulation/src"
\* copy_with_rename(old, new) on the file name.
Rename(core, old, new) == IF core = old THEN new ELSE core

\* shutil.copytree of one directory of module_class m for cls c.
CopyTree(fs, m, dir, c, root, purpose) ==
    LET dst == IF dir = "hardware/src" THEN GetPurposeDir(purpose) ELSE dir
        new == {File(root, DestDir(dst, s.path), Rename(s.core, m, c), s.stem, m, c) :
                   s \in {t \in SrcTree(m) : t.dir = dir}}
    IN  {g \in fs : ~\E n \in new : n.root = g.root /\ n.dir = g.dir
                                    /\ n.core = g.core /\ n.stem = g.stem}
        \cup new

RECURSIVE CopyDirs(_, _, _, _, _, _)
CopyDirs(fs, m, dirs, c, root, purpose) ==
    IF dirs = <<>> THEN fs
    ELSE CopyDirs(IF IsDir(m, Head(dirs))
                  THEN CopyTree(fs, m, Head(dirs), c, root, purpose) ELSE fs,
                  m, Tail(dirs), c, root, purpose)

\* "if cls.is_top_module and 'doc' in cls.flows:"
CopiesDocument(c, isTop) == isTop /\ "doc" \in flows[c]
\* shutil.copytree of m's document directory, with no copy_function: no rename.
CopyDocument(fs, m, c, root) ==
    WriteFile(fs, File(root, "document", "", "doc.tex", m, c))

\* The classes of the chain whose directories are copied: those with a
\* setup_dir that no earlier class of the chain has.
RECURSIVE Visited(_, _)
Visited(classes, done) ==
    IF classes = <<>> THEN <<>>
    ELSE LET m == Head(classes)
         IN  IF SetupDir(m) = "" \/ SetupDir(m) \in done
             THEN Visited(Tail(classes), done)
             ELSE <<m>> \o Visited(Tail(classes), done \cup {SetupDir(m)})

\* copytree raises FileNotFoundError for a source directory that is missing;
\* only the entries of dir_list are tested with isdir before.
DocumentMissing(m, c, isTop) == CopiesDocument(c, isTop) /\ m \notin document_dirs

\* The loop over the classes; it ends at the class whose copy raises.
RECURSIVE CopyClasses(_, _, _, _, _, _, _)
CopyClasses(fs, classes, done, c, isTop, root, purpose) ==
    IF classes = <<>> THEN fs
    ELSE LET m == Head(classes)
         IN  IF SetupDir(m) = "" \/ SetupDir(m) \in done
             THEN CopyClasses(fs, Tail(classes), done, c, isTop, root, purpose)
             ELSE LET copied == CopyDirs(fs, m, DirList(isTop), c, root, purpose)
                  IN  IF DocumentMissing(m, c, isTop) THEN copied
                      ELSE CopyClasses(IF CopiesDocument(c, isTop)
                                       THEN CopyDocument(copied, m, c, root)
                                       ELSE copied,
                                       Tail(classes), done \cup {SetupDir(m)}, c, isTop,
                                       root, purpose)

\* The whole of _copy_srcs for cls c.
CopySrcs(fs, c) ==
    CopyClasses(fs, Chain(c), {}, c, IsTopOf(c), BuildDirOf(c), GetSetupPurpose(c))
\* _copy_srcs of cls c raises.
CopySrcsRaises(c) ==
    \E i \in 1..Len(Visited(Chain(c), {})) :
        DocumentMissing(Visited(Chain(c), {})[i], c, IsTopOf(c))

\* The loop left before its list is exhausted.
LoopDone_Early(idx, n) == TRUE

\* "for submodule in cls.submodule_list" has no entry left.
LoopDone(idx, n) == idx > n

\* _specific_setup is over (_create_instances and _setup_block_groups add
\* nothing by default); _post_setup copies the sources.
PostSetupCopySrcs ==
    /\ status = "running" /\ stack # <<>>
    /\ Cur.pc = "submodules"
    /\ LoopDone(Cur.idx, Len(SubmoduleListOf(Cur.cls)))
    /\ IF ~KnownPurpose(GetSetupPurpose(Cur.cls))
       THEN /\ err' = Error("unknown_purpose", "-")
            /\ status' = "error"
            /\ stack' = <<>>
            /\ UNCHANGED files
       ELSE IF CopySrcsRaises(Cur.cls)
       THEN /\ files' = CopySrcs(files, Cur.cls)
            /\ err' = Error("file_not_found", Cur.cls)
            /\ status' = "error"
            /\ stack' = <<>>
       ELSE /\ files' = CopySrcs(files, Cur.cls)
            /\ stack' = <<At(Cur, "auto_add", 0)>> \o Tail(stack)
            /\ UNCHANGED <<status, err>>
    /\ UNCHANGED <<classVars, histVars>>
    /\ UNCHANGED otherVars

\* ------------------------------------------------------- _auto_add_settings
\* The VERSION macro is appended when there are macros and none is VERSION.
AutoAddMacro(cs) ==
    IF cs # <<>> /\ "VERSION" \notin Range(cs) THEN Append(cs, "VERSION") ELSE cs

\* "if cls.regs:" and "if cls.name != 'iob_ctls':" of _auto_add_settings
AddsCtls(c) == RegsOf(c) # <<>> /\ c # "iob_ctls"

\* The macro, and the setup of iob_ctls for the latest purpose.
AutoAddSettings ==
    /\ status = "running" /\ stack # <<>>
    /\ Cur.pc = "auto_add"
    /\ confs' = IF AttrOwner(Cur.cls) = Base THEN confs
                ELSE [confs EXCEPT ![AttrOwner(Cur.cls)] = AutoAddMacro(@)]
    /\ stack' =
          IF AddsCtls(Cur.cls)
          THEN <<Frame("iob_ctls", GetSetupPurpose(Cur.cls), FALSE), At(Cur, "auto_gen", 0)>>
               \o Tail(stack)
          ELSE IF RegsOf(Cur.cls) # <<>>
               THEN <<At(Cur, "auto_gen", 0)>> \o Tail(stack)
               ELSE <<At(Cur, "generate_files", 0)>> \o Tail(stack)
    /\ UNCHANGED <<setup_purpose, initialized_attributes, is_top_module, build_dir,
                   submodule_list, regs, ios, block_groups, files, status, err,
                   histVars>>
    /\ UNCHANGED otherVars

\* The two __generate calls for iob_s_port and iob_s_s_portmap.
AutoAddGenerate ==
    /\ status = "running" /\ stack # <<>>
    /\ Cur.pc = "auto_gen"
    /\ IF KnownPurpose(GetSetupPurpose(Cur.cls))
       THEN /\ generated' = generated \cup
                   {[cls |-> Cur.cls, interface |-> i,
                     purpose |-> GetSetupPurpose(Cur.cls)] :
                       i \in {"iob_s_port", "iob_s_s_portmap"}}
            /\ stack' = <<At(Cur, "generate_files", 0)>> \o Tail(stack)
            /\ UNCHANGED <<status, err>>
       ELSE /\ err' = Error("unknown_purpose", "-")
            /\ status' = "error"
            /\ stack' = <<>>
            /\ UNCHANGED generated
    /\ UNCHANGED <<classVars, files, ran, skipped, init_runs, root_assigns, sub_log,
                   body_runs, build_dir_runs>>
    /\ UNCHANGED otherVars

\* -------------------------------------------------------- _build_regs_table
HasGeneral(rs) == \E i \in 1..Len(rs) : rs[i].name = "general"
\* "general_regs_table = next(...)": the first group named general, appended
\* when there is none.
WithGeneral(rs) == IF HasGeneral(rs) THEN rs ELSE Append(rs, Group("general", <<>>))
GeneralIdx(rs) == CHOOSE i \in 1..Len(rs) :
    rs[i].name = "general" /\ \A j \in 1..(i - 1) : rs[j].name # "general"
\* "if len(cls._setup_purpose) < 2:"
ChecksVersion(hist) == Len(hist) < 2
\* The registers the reserved name is looked for in: general_regs_table["regs"].
VersionScope(rs) == Range(WithGeneral(rs)[GeneralIdx(WithGeneral(rs))].regs)
ReservedCollision(rs, hist) ==
    rs # <<>> /\ ChecksVersion(hist) /\ "VERSION" \in VersionScope(rs)
\* The register list when _build_regs_table returns.
BuildRegsTable(rs, hist) ==
    IF rs = <<>> THEN rs
    ELSE IF ChecksVersion(hist)
         THEN [WithGeneral(rs) EXCEPT ![GeneralIdx(WithGeneral(rs))].regs =
                                         Append(@, "VERSION")]
         ELSE WithGeneral(rs)

\* ---------------------------------------------------------- _generate_files
\* _generate_hw: the headers of the registers and of the macros.
GeneratedHw(c, root) ==
    (IF RegsOf(c) # <<>>
     THEN {File(root, "hardware/src", c, "swreg_def.vh", "mkregs", c),
           File(root, "hardware/simulation/src", c, "swreg_lparam.vh", "mkregs", c),
           File(root, "hardware/src", c, "swreg_gen.v", "mkregs", c)}
     ELSE {})
    \cup (IF ConfsOf(c) # <<>>
          THEN {File(root, "hardware/src", c, "params.vh", "mk_conf", c),
                File(root, "hardware/src", c, "conf.vh", "mk_conf", c)}
          ELSE {})

\* _generate_doc: the tables of the document, for a top module with the
\* documentation flow.
GeneratedDoc(c, root) ==
    IF IsTopOf(c) /\ "doc" \in flows[c]
    THEN {File(root, "document/tsrc", "", "confs.tex", "mk_conf", c),
          File(root, "document/tsrc", "", "ios.tex", "ios", c),
          File(root, "document/tsrc", "", "blocks.tex", "blocks", c)}
         \cup (IF RegsOf(c) # <<>>
               THEN {File(root, "document/tsrc", "", "regs.tex", "mkregs", c)}
               ELSE {})
    ELSE {}

\* The removal left out: every copy stays where it is.
RemoveDuplicateSources_None(fs, root) == fs

\* _remove_duplicate_sources: what is under hardware/src too leaves the other
\* folders of PURPOSE_DIRS.
RemoveDuplicateSources(fs, root) ==
    {g \in fs :
        ~(/\ g.root = root
          /\ g.dir \in {PURPOSE_DIRS[p] : p \in DOMAIN PURPOSE_DIRS} \ {"hardware/src"}
          /\ \E h \in fs : h.root = root /\ h.dir = "hardware/src"
                           /\ h.core = g.core /\ h.stem = g.stem)}

RECURSIVE WriteAll(_, _)
WriteAll(fs, new) ==
    IF new = {} THEN fs
    ELSE LET f == CHOOSE f \in new : TRUE
         IN  WriteAll(WriteFile(fs, f), new \ {f})

\* Register 'VERSION' is reserved: _build_regs_table raises.
GenerateFilesRaise ==
    /\ status = "running" /\ stack # <<>>
    /\ Cur.pc = "generate_files"
    /\ ReservedCollision(RegsOf(Cur.cls), HistOf(Cur.cls))
    /\ regs' = [regs EXCEPT ![AttrOwner(Cur.cls)] = WithGeneral(@)]
    /\ err' = Error("reserved_version", Cur.cls)
    /\ status' = "error"
    /\ stack' = <<>>
    /\ UNCHANGED <<setup_purpose, initialized_attributes, is_top_module, build_dir,
                   submodule_list, confs, ios, block_groups, files, histVars>>
    /\ UNCHANGED otherVars

\* The rest of _post_setup: the register table, the generated files, for the
\* top module the removal of duplicate sources; then __setup returns.
GenerateFiles ==
    /\ status = "running" /\ stack # <<>>
    /\ Cur.pc = "generate_files"
    /\ ~ReservedCollision(RegsOf(Cur.cls), HistOf(Cur.cls))
    /\ regs' = IF AttrOwner(Cur.cls) = Base THEN regs
               ELSE [regs EXCEPT ![AttrOwner(Cur.cls)] =
                                    BuildRegsTable(@, HistOf(Cur.cls))]
    /\ LET root == BuildDirOf(Cur.cls)
           written == WriteAll(files, GeneratedHw(Cur.cls, root)
                                          \cup GeneratedDoc(Cur.cls, root))
       IN  files' = IF IsTopOf(Cur.cls) THEN RemoveDuplicateSources(written, root)
                    ELSE written
    /\ stack' = Tail(stack)
    /\ status' = IF Tail(stack) = <<>> THEN "done" ELSE "running"
    /\ UNCHANGED <<setup_purpose, initialized_attributes, is_top_module, build_dir,
                   submodule_list, confs, ios, block_groups, err, histVars>>
    /\ UNCHANGED otherVars

Next ==
    \/ SetupAsTopModule
    \/ SetupReturn
    \/ SetupBegin
    \/ SubmoduleSkip
    \/ SubmoduleGenerate
    \/ SubmoduleSetup
    \/ SubmoduleUnknown
    \/ PostSetupCopySrcs
    \/ AutoAddSettings
    \/ AutoAddGenerate
    \/ GenerateFilesRaise
    \/ GenerateFiles

Spec == Init /\ [][Next]_vars

\* The interpreter runs the one thread of the program on: a step that can be
\* taken is taken.
SpecLive == Init /\ [][Next]_vars /\ WF_vars(Next)

\* The same program for a top module with the documentation flow.
SpecDoc == InitDoc /\ [][Next]_vars

\* ---------------------------------------------------------- update_dict_list
MaxNew == 2

\* The names and the other keys of the dictionaries, with their values.
Names == {"n1", "n2"}
KeyValues == [v |-> {"1", "2"}, w |-> {"1"}]
\* The dictionaries: each has a "name" and any of the other keys.
Dicts ==
    UNION {{d \in [{"name"} \cup ks -> Names \cup {"1", "2"}] :
               /\ d["name"] \in Names
               /\ \A k \in ks : d[k] \in KeyValues[k]} : ks \in SUBSET (DOMAIN KeyValues)}
\* The lists whose entries have pairwise distinct names.
DistinctNameLists ==
    {q \in SeqsUpTo(Dicts, Cardinality(Names)) :
        \A i, j \in 1..Len(q) : q[i]["name"] = q[j]["name"] => i = j}

\* The call update_dict_list(L, N) has just started.
InitMerge ==
    /\ SetupIdle
    /\ SystemvIdle
    /\ RenameIdle
    /\ dict_list \in DistinctNameLists
    /\ new_items \in SeqsUpTo(Dicts, MaxNew)
    /\ item_idx = 1
    /\ merge_args = <<dict_list, new_items>>

\* The update that keeps nothing of the old entry.
Update_Replace(old, new) == new

\* _item.update(item)
Update(old, new) ==
    [k \in DOMAIN old \cup DOMAIN new |-> IF k \in DOMAIN new THEN new[k] ELSE old[k]]

\* The inner loop: the first entry of the list with the name, 0 when the loop
\* ends without break.
FindName(dl, n) ==
    IF \E i \in 1..Len(dl) : dl[i]["name"] = n
    THEN CHOOSE i \in 1..Len(dl) :
             dl[i]["name"] = n /\ \A j \in 1..(i - 1) : dl[j]["name"] # n
    ELSE 0

\* One turn of the outer loop that finds the name: the entry is updated.
MergeItem ==
    /\ item_idx \in 1..Len(new_items)
    /\ LET item == new_items[item_idx]
           i == FindName(dict_list, item["name"])
       IN  /\ i # 0
           /\ dict_list' = [dict_list EXCEPT ![i] = Update(@, item)]
    /\ item_idx' = item_idx + 1
    /\ UNCHANGED <<new_items, merge_args, setupVars, envVars, csVars, renameVars>>

\* One turn of the outer loop that does not: the item is appended.
AppendItem ==
    /\ item_idx \in 1..Len(new_items)
    /\ LET item == new_items[item_idx]
       IN  /\ FindName(dict_list, item["name"]) = 0
           /\ dict_list' = Append(dict_list, item)
    /\ item_idx' = item_idx + 1
    /\ UNCHANGED <<new_items, merge_args, setupVars, envVars, csVars, renameVars>>

NextMerge ==
    \/ MergeItem
    \/ AppendItem

SpecMerge == InitMerge /\ [][NextMerge]_vars

\* ------------------------------------------------------------ createSystem.py
MaxInst == 2

\* A line of text: text is its characters in order, cut into pieces so that
\* every comma is a piece of its own and every word the code searches for is
\* one piece. tag, inst and of record which statement inserted the line, for
\* which instance and for which signal, parameter or type; the code reads text
\* only.
Line(tag, inst, of, text) == [tag |-> tag, inst |-> inst, of |-> of, text |-> text]
TemplateLine(text) == Line("template", 0, "", text)

\* The templates: each has the header marker, the end of the port list and the
\* closing keyword.
Templates ==
    {<<TemplateLine(<<"//", "PHEADER", "\n">>),
       TemplateLine(<<"module top(", "\n">>),
       TemplateLine(<<");", "\n">>),
       TemplateLine(<<"endmodule", "\n">>)>>,
     <<TemplateLine(<<"// system", "\n">>),
       TemplateLine(<<"//", "PHEADER", "\n">>),
       TemplateLine(<<"module top(", "\n">>),
       TemplateLine(<<"input clk_i", "\n">>),
       TemplateLine(<<");", "\n">>),
       TemplateLine(<<"assign a = b;", "\n">>),
       TemplateLine(<<"endmodule", "\n">>),
       TemplateLine(<<"// end", "\n">>)>>}
\* What out_file holds before the call when it is there already.
OldFile == FileOf(<<Line("old", 0, "", <<"// old", "\n">>)>>)

\* The peripheral types with what their setup modules give: the top name, and
\* the ports, in the order get_reserved_signals and get_pio_signals return them.
PeripheralTypes == {"T", "U", "V"}
TopOf(type) == CASE type = "T" -> "tcore" [] type = "U" -> "ucore" [] OTHER -> "vcore"
ReservedSignals(type) ==
    CASE type = "T" -> <<"clk">> [] type = "V" -> <<"rst", "clk">> [] OTHER -> <<>>
PioSignals(type) ==
    CASE type = "T" -> <<"data">> [] type = "U" -> <<"x", "y">> [] OTHER -> <<>>
\* The signal expression a port is connected to: a concatenation for x and rst.
Expression(signal) == IF signal \in {"x", "rst"} THEN <<"{a", ",", "b}">> ELSE <<"w">>

\* instance['params'].items(), in the order of the dictionary.
Param(param, value) == [param |-> param, value |-> value]
ParamChoices ==
    {<<>>, <<Param("W", <<"8">>)>>,
     <<Param("W", <<"8">>), Param("INIT", <<"{1", ",", "2}">>)>>}
InstanceNames == <<"u0", "u1", "u2", "u3">>
Instance(type, name, params) == [type |-> type, name |-> name, params |-> params]
\* The peripheral lists of up to n instances, each named after its place.
PeripheralLists(n) ==
    {[i \in 1..Len(q) |-> Instance(q[i][1], InstanceNames[i], q[i][2])] :
        q \in SeqsUpTo(PeripheralTypes \X ParamChoices, n)}
WireChoices == {<<>>, <<[name |-> "iw", n_bits |-> "4"]>>}

\* create_systemv has just been called.
InitSystemv ==
    /\ SetupIdle
    /\ MergeIdle
    /\ RenameIdle
    /\ template_file \in {NoFile} \cup {FileOf(t) : t \in Templates}
    /\ systemv_file \in {NoFile, OldFile}
    /\ peripherals_list \in PeripheralLists(MaxInst)
    /\ internal_wires \in WireChoices
    /\ template_contents = <<>> /\ included_peripherals = <<>>
    /\ start_index = 0 /\ first_reversed_signal = TRUE
    /\ cs_pc = "call" /\ instance_idx = 0 /\ signal_idx = 0
    /\ cs_err = NoError

\* "word in line"
Contains(line, word) == word \in Range(line.text)
\* find_idx(lines, word): the index after the first line that contains word,
\* as a 0-based index of the list; the length of the list when none does.
FindIdx(lines, word) ==
    IF \E i \in 1..Len(lines) : Contains(lines[i], word)
    THEN CHOOSE i \in 1..Len(lines) :
             Contains(lines[i], word) /\ \A j \in 1..(i - 1) : ~Contains(lines[j], word)
    ELSE Len(lines)
\* list.insert(k, x) for k >= 0: x comes to stand at the 0-based index k.
Insert(lines, k, x) ==
    LET at == IF k > Len(lines) THEN Len(lines) ELSE k
    IN  SubSeq(lines, 1, at) \o <<x>> \o SubSeq(lines, at + 1, Len(lines))

Reverse(t) == [i \in 1..Len(t) |-> t[Len(t) + 1 - i]]
\* str.replace(ch, "", 1)
RemoveFirst(t, ch) ==
    IF ch \notin Range(t) THEN t
    ELSE LET i == CHOOSE i \in 1..Len(t) : t[i] = ch /\ \A j \in 1..(i - 1) : t[j] # ch
         IN  SubSeq(t, 1, i - 1) \o SubSeq(t, i + 1, Len(t))
\* The removal that takes the left-most comma.
RemoveComma_LeftMost(t) == RemoveFirst(t, ",")

\* line[::-1].replace(",", "", 1)[::-1]
RemoveComma(t) == Reverse(RemoveFirst(Reverse(t), ","))
\* template_contents[k] = <RemoveComma of template_contents[k]>
RemoveCommaAt(lines, k) == [lines EXCEPT ![k + 1].text = RemoveComma(@)]

\* The lines the code writes. The grave accent of the include is left out.
IncludeLine(type) ==
    Line("include", 0, type, <<"include \"", TopOf(type), "_swreg_def.vh\"", "\n">>)
CloseLine(i) == Line("close", i, "", <<"      ", ");", "\n">>)
\* get_reserved_signal_connection(signal['name'], ...)
ReservedConnection(signal) == <<".", signal, "(">> \o Expression(signal) \o <<")">>
ReservedLine(i, signal) ==
    Line("reserved", i, signal, <<"      ">> \o ReservedConnection(signal) \o <<",", "\n">>)
\* ios.get_peripheral_port_mapping(instance, signal['name'])
PortMapping(instance, signal) == Expression(signal)
PioLine(i, instance, signal) ==
    Line("pio", i, signal,
         <<"      .", signal, "(">> \o PortMapping(instance, signal) \o <<")", ",", "\n">>)
NameLine(i, instance) == Line("name", i, "", <<"   ", instance.name, " (", "\n">>)
ParamsCloseLine(i) == Line("params_close", i, "", <<"   )", "\n">>)
\* '"" if first_reversed_signal else ","'
ParamSeparator(first) == IF first THEN <<>> ELSE <<",">>
ParamLine(i, p, first) ==
    Line("param", i, p.param,
         <<"      .", p.param, "(">> \o p.value \o <<")">> \o ParamSeparator(first)
         \o <<"\n">>)
ParamsOpenLine(i) == Line("params_open", i, "", <<"     #(", "\n">>)
TypeLine(i, instance) == Line("type", i, instance.type, <<"   ", TopOf(instance.type), "\n">>)
BlankLine(i) == Line("blank", i, "", <<"\n">>)
CommentLine(i, instance) == Line("comment", i, "", <<"   // ", instance.name, "\n">>)
WireLine(w) == Line("wire", 0, w.name, <<"    wire [", w.n_bits, "-1:0] ", w.name, "\n">>)
WiresCommentLine == Line("wires_comment", 0, "", <<"    // Module internal wires", "\n">>)

nonCsVars == <<setupVars, envVars, mergeVars, renameVars>>

\* The test passed over: the template is opened whether it is there or not.
TemplateAvailable_Always(tf) == TRUE

\* os.path.isfile(setup_dir + f"/hardware/src/{top}.vt")
TemplateAvailable(tf) == tf.exists

\* "if not os.path.isfile(...): return"
CreateSystemvNoTemplate ==
    /\ cs_pc = "call"
    /\ ~TemplateAvailable(template_file)
    /\ cs_pc' = "returned"
    /\ UNCHANGED <<template_file, systemv_file, peripherals_list, internal_wires,
                   template_contents, included_peripherals, start_index,
                   first_reversed_signal, instance_idx, signal_idx, cs_err, nonCsVars>>

\* The template is read; open raises when the file is not there.
ReadTemplate ==
    /\ cs_pc = "call"
    /\ TemplateAvailable(template_file)
    /\ IF template_file.exists
       THEN /\ template_contents' = template_file.lines
            /\ cs_pc' = "headers"
            /\ instance_idx' = 1
            /\ UNCHANGED cs_err
       ELSE /\ cs_err' = Error("file_not_found", "create_systemv")
            /\ cs_pc' = "raised"
            /\ UNCHANGED <<template_contents, instance_idx>>
    /\ UNCHANGED <<template_file, systemv_file, peripherals_list, internal_wires,
                   included_peripherals, start_index, first_reversed_signal,
                   signal_idx, nonCsVars>>

\* The index moved past the include lines already inserted.
HeaderIndex_Moving == FindIdx(template_file.lines, "PHEADER") + Len(included_peripherals)

\* header_index of insert_header_files: found once, in the lines as read.
HeaderIndex == FindIdx(template_file.lines, "PHEADER")

\* The type is inserted for every instance.
NotIncluded_Always(type, included) == TRUE

\* "if instance['type'] not in included_peripherals:"
NotIncluded(type, included) == type \notin Range(included)

\* One turn of the loop of insert_header_files for a type not met before.
InsertHeaderFile ==
    /\ cs_pc = "headers"
    /\ instance_idx \in 1..Len(peripherals_list)
    /\ LET type == peripherals_list[instance_idx].type
       IN  /\ NotIncluded(type, included_peripherals)
           /\ included_peripherals' = Append(included_peripherals, type)
           /\ template_contents' = Insert(template_contents, HeaderIndex, IncludeLine(type))
    /\ instance_idx' = instance_idx + 1
    /\ UNCHANGED <<template_file, systemv_file, peripherals_list, internal_wires,
                   start_index, first_reversed_signal, cs_pc, signal_idx, cs_err,
                   nonCsVars>>

\* One turn for a type that has its include.
SkipHeaderFile ==
    /\ cs_pc = "headers"
    /\ instance_idx \in 1..Len(peripherals_list)
    /\ ~NotIncluded(peripherals_list[instance_idx].type, included_peripherals)
    /\ instance_idx' = instance_idx + 1
    /\ UNCHANGED <<template_file, systemv_file, peripherals_list, internal_wires,
                   template_contents, included_peripherals, start_index,
                   first_reversed_signal, cs_pc, signal_idx, cs_err, nonCsVars>>

\* insert_header_files returns; get_peripherals_ports_params_top gives the
\* ports and the top names.
GetPortsParamsTop ==
    /\ cs_pc = "headers"
    /\ instance_idx > Len(peripherals_list)
    /\ cs_pc' = "instances"
    /\ instance_idx' = 1
    /\ UNCHANGED <<template_file, systemv_file, peripherals_list, internal_wires,
                   template_contents, included_peripherals, start_index,
                   first_reversed_signal, signal_idx, cs_err, nonCsVars>>

\* The lines of the instance put after the closing keyword.
StartIndex_AfterKeyword(lines) == FindIdx(lines, "endmodule")

\* start_index = find_idx(template_contents, "endmodule") - 1
StartIndex(lines) == FindIdx(lines, "endmodule") - 1

CurInstance == peripherals_list[instance_idx]
\* Where create_systemv goes on after a loop: loops over no signal are passed.
AfterReserved(type) == IF PioSignals(type) # <<>> THEN "pio" ELSE "name"
AfterClose(type) == IF ReservedSignals(type) # <<>> THEN "reserved" ELSE AfterReserved(type)

\* A turn of the loop over the instances starts: the anchor is found and the
\* closing parenthesis inserted.
InstanceBegin ==
    /\ cs_pc = "instances"
    /\ instance_idx \in 1..Len(peripherals_list)
    /\ start_index' = StartIndex(template_contents)
    /\ template_contents' = Insert(template_contents, start_index', CloseLine(instance_idx))
    /\ first_reversed_signal' = TRUE
    /\ signal_idx' = 1
    /\ cs_pc' = AfterClose(CurInstance.type)
    /\ UNCHANGED <<template_file, systemv_file, peripherals_list, internal_wires,
                   included_peripherals, instance_idx, cs_err, nonCsVars>>

\* The line of a signal is inserted, and loses its comma when it is the first
\* one inserted for the instance.
InsertSignal(lines, k, line, first) ==
    IF first THEN RemoveCommaAt(Insert(lines, k, line), k) ELSE Insert(lines, k, line)

\* One turn of the loop over the reserved signals.
InsertReservedSignal ==
    /\ cs_pc = "reserved"
    /\ LET signals == ReservedSignals(CurInstance.type)
       IN  /\ template_contents' =
                  InsertSignal(template_contents, start_index,
                               ReservedLine(instance_idx, signals[signal_idx]),
                               first_reversed_signal)
           /\ IF signal_idx = Len(signals)
              THEN cs_pc' = AfterReserved(CurInstance.type) /\ signal_idx' = 1
              ELSE cs_pc' = cs_pc /\ signal_idx' = signal_idx + 1
    /\ first_reversed_signal' = FALSE
    /\ UNCHANGED <<template_file, systemv_file, peripherals_list, internal_wires,
                   included_peripherals, start_index, instance_idx, cs_err, nonCsVars>>

\* One turn of the loop over the io signals.
InsertPioSignal ==
    /\ cs_pc = "pio"
    /\ LET signals == PioSignals(CurInstance.type)
       IN  /\ template_contents' =
                  InsertSignal(template_contents, start_index,
                               PioLine(instance_idx, CurInstance, signals[signal_idx]),
                               first_reversed_signal)
           /\ IF signal_idx = Len(signals)
              THEN cs_pc' = "name" /\ signal_idx' = 1
              ELSE cs_pc' = cs_pc /\ signal_idx' = signal_idx + 1
    /\ first_reversed_signal' = FALSE
    /\ UNCHANGED <<template_file, systemv_file, peripherals_list, internal_wires,
                   included_peripherals, start_index, instance_idx, cs_err, nonCsVars>>

\* The parameter block written for every instance.
HasParams_Always(instance) == TRUE

\* "if len(instance['params']) > 0:"
HasParams(instance) == Len(instance.params) > 0

\* The loop over the parameters.
RECURSIVE InsertParams(_, _, _, _, _)
InsertParams(lines, k, i, ps, first) ==
    IF ps = <<>> THEN lines
    ELSE InsertParams(Insert(lines, k, ParamLine(i, Head(ps), first)), k, i, Tail(ps),
                      FALSE)

\* The instance name, the parameter block if any, the type, and the comment
\* between two blank lines; then the next instance.
InsertInstanceHead ==
    /\ cs_pc = "name"
    /\ LET k == start_index
           i == instance_idx
           named == Insert(template_contents, k, NameLine(i, CurInstance))
           params == IF HasParams(CurInstance)
                     THEN Insert(InsertParams(Insert(named, k, ParamsCloseLine(i)), k, i,
                                              CurInstance.params, TRUE),
                                 k, ParamsOpenLine(i))
                     ELSE named
           typed == Insert(params, k, TypeLine(i, CurInstance))
       IN  /\ template_contents' =
                  Insert(Insert(Insert(typed, k, BlankLine(i)), k,
                                CommentLine(i, CurInstance)), k, BlankLine(i))
           /\ first_reversed_signal' =
                  IF HasParams(CurInstance)
                  THEN CurInstance.params = <<>> ELSE first_reversed_signal
    /\ instance_idx' = instance_idx + 1
    /\ cs_pc' = "instances"
    /\ UNCHANGED <<template_file, systemv_file, peripherals_list, internal_wires,
                   included_peripherals, start_index, signal_idx, cs_err, nonCsVars>>

RECURSIVE InsertWires(_, _, _)
InsertWires(lines, k, ws) ==
    IF ws = <<>> THEN lines
    ELSE InsertWires(Insert(lines, k, WireLine(Head(ws))), k, Tail(ws))

\* The loop over the instances is over: "if internal_wires:".
InsertInternalWires ==
    /\ cs_pc = "instances"
    /\ instance_idx > Len(peripherals_list)
    /\ IF internal_wires # <<>>
       THEN /\ start_index' = FindIdx(template_contents, ");")
            /\ template_contents' =
                   Insert(InsertWires(template_contents, start_index', internal_wires),
                          start_index', WiresCommentLine)
       ELSE UNCHANGED <<start_index, template_contents>>
    /\ cs_pc' = "write"
    /\ UNCHANGED <<template_file, systemv_file, peripherals_list, internal_wires,
                   included_peripherals, first_reversed_signal, instance_idx,
                   signal_idx, cs_err, nonCsVars>>

\* open(out_file, "w") and writelines
WriteSystemv ==
    /\ cs_pc = "write"
    /\ systemv_file' = FileOf(template_contents)
    /\ cs_pc' = "written"
    /\ UNCHANGED <<template_file, peripherals_list, internal_wires, template_contents,
                   included_peripherals, start_index, first_reversed_signal,
                   instance_idx, signal_idx, cs_err, nonCsVars>>

NextSystemv ==
    \/ CreateSystemvNoTemplate
    \/ ReadTemplate
    \/ InsertHeaderFile
    \/ SkipHeaderFile
    \/ GetPortsParamsTop
    \/ InstanceBegin
    \/ InsertReservedSignal
    \/ InsertPioSignal
    \/ InsertInstanceHead
    \/ InsertInternalWires
    \/ WriteSystemv

SpecSystemv == InitSystemv /\ [][NextSystemv]_vars

\* ---------------------------------------------------------- copy_with_rename
MaxText == 3

\* A text is the sequence of its characters. The core names are lower-case
\* identifiers; the file name and the content hold upper-case letters too.
OldNames == {<<"a">>, <<"a", "b">>}
NewNames == {<<"x">>, <<"x", "y">>, <<"b">>, <<"a", "x">>}
FileNames == SeqsUpTo({"a", "b", "A", "x"}, 2) \ {<<>>}
Contents == SeqsUpTo({"a", "b", "x", "A", "B"}, MaxText)

\* copy_func(src, dst) of copy_with_rename(old, new) has just been called.
InitRename ==
    /\ SetupIdle
    /\ MergeIdle
    /\ SystemvIdle
    /\ rename_args \in [old : OldNames, new : NewNames, name : FileNames, text : Contents]
    /\ rename_dst = <<>>
    /\ rename_pc = "call"

\* str.upper()
Upper(t) ==
    LET UpperChar(ch) ==
            CASE ch = "a" -> "A" [] ch = "b" -> "B" [] ch = "x" -> "X" [] ch = "y" -> "Y"
              [] OTHER -> ch
    IN  [i \in 1..Len(t) |-> UpperChar(t[i])]

\* str.replace(o, n) for a non-empty o: the occurrences of o are found from
\* the left, none overlapping the one before.
RECURSIVE Replace(_, _, _)
Replace(t, o, n) ==
    IF Len(t) < Len(o) THEN t
    ELSE IF SubSeq(t, 1, Len(o)) = o
         THEN n \o Replace(SubSeq(t, Len(o) + 1, Len(t)), o, n)
         ELSE <<Head(t)>> \o Replace(Tail(t), o, n)

\* The renaming without its second replace.
RenameText_LowerOnly(t, old, new) == Replace(t, old, new)

\* .replace(old_core_name, new_core_name).replace(old_core_name.upper(),
\* new_core_name.upper())
RenameText(t, old, new) == Replace(Replace(t, old, new), Upper(old), Upper(new))

\* copy_func: the file is written under its renamed name with every line
\* renamed.
CopyFunc ==
    /\ rename_pc = "call"
    /\ rename_dst' =
           [name |-> RenameText(rename_args.name, rename_args.old, rename_args.new),
            text |-> RenameText(rename_args.text, rename_args.old, rename_args.new)]
    /\ rename_pc' = "copied"
    /\ UNCHANGED <<rename_args, setupVars, envVars, mergeVars, csVars>>

NextRename == CopyFunc

SpecRename == InitRename /\ [][NextRename]_vars

\* ============================================================ properties
\* A request is pending: the innermost call of __setup has not started.
Pending(c) == status = "running" /\ stack # <<>> /\ Cur.pc = "setup" /\ Cur.cls = c

\* C1: a setup request for (D, p) made when p is already in D's setup-purpose
\* history returns at once and changes nothing: the histories, the lists, the
\* shared build root and the files stay as they are, no call is made.
C1_SetupIdempotent ==
    [][\A c \in Types :
          (Pending(c) /\ Cur.purpose \in Range(HistOf(c)))
          => /\ UNCHANGED <<classVars, files, generated>>
             /\ stack' = Tail(stack)
             /\ err' = NoError]_vars
C1_Witness ==
    \E r \in skipped : r[2] \in Range(HistOf(r[1])) /\ r[2] # "hardware"

\* C2: once hardware is in a descriptor's history the history never changes
\* again and hardware is its last element; a later request for the descriptor,
\* whatever its purpose, appends nothing, sets up no dependency and writes no
\* file.
C2_HardwareAbsorbs ==
    [][\A c \in Types :
          /\ "hardware" \in Range(HistOf(c))
             => /\ HistOf(c)' = HistOf(c)
                /\ Last(HistOf(c)) = "hardware"
                /\ Pending(c) => /\ UNCHANGED <<classVars, files, generated>>
                                 /\ stack' = Tail(stack)
          /\ "hardware" \in Range(HistOf(c)') => Last(HistOf(c)') = "hardware"]_vars
C2_Witness ==
    \E r \in skipped : /\ "hardware" \in Range(HistOf(r[1]))
                       /\ r[2] \notin Range(HistOf(r[1]))

\* C3: each time the body of D runs for purpose p, every descriptor-type entry
\* of D's submodule_list written with no purpose or with hardware receives a
\* setup request for exactly p.
C3_PurposePropagation ==
    \A r \in sub_log :
        (r.kind = "module" /\ r.decl \in {"absent", "hardware"})
        => (r.outcome = "setup" /\ r.purpose = r.body)

\* C4: a request for (B, p) returns at once only if B itself was set up for p
\* or for hardware before, and B's history holds only purposes B was set up
\* for: the setup of another type, a superclass of B included, does neither.
C4_MemoPerType ==
    /\ \A r \in skipped : r \in ran \/ <<r[1], "hardware">> \in ran
    /\ \A c \in Types : \A p \in Range(HistOf(c)) : <<c, p>> \in ran

\* C5: attribute initialization has run exactly once for every descriptor type
\* whose setup body has started, whatever the order its ancestors were set up in.
C5_InitOncePerType ==
    \A c \in Types : (\E p \in Purposes : <<c, p>> \in ran) => init_runs[c] = 1

\* C6: when the setup of a descriptor ends in the reserved-name error for
\* VERSION, that setup has created, copied or generated no file of the build
\* directory before.
C6_ReservedFailsBeforeWrite ==
    err.kind = "reserved_version" => \A g \in files : g.by # err.cls

RECURSIVE CountVersion(_)
CountVersion(rs) ==
    IF rs = <<>> THEN 0
    ELSE Cardinality({i \in 1..Len(Head(rs).regs) : Head(rs).regs[i] = "VERSION"})
         + CountVersion(Tail(rs))

\* C7: after setups that complete without error, a descriptor with registers
\* has exactly one register named VERSION over all its groups.
C7_UniqueVersion ==
    status = "done"
    => \A c \in Types :
          ((\E p \in Purposes : <<c, p>> \in ran) /\ RegsOf(c) # <<>>)
          => CountVersion(RegsOf(c)) = 1

\* C8: the shared build root is assigned once, by the top descriptor in its
\* attribute initialization, before any dependency is set up; it keeps its
\* value, and every initialized descriptor has it as build_dir.
C8_SingleBuildRoot ==
    /\ Len(root_assigns) <= 1
    /\ ran # {} => (root_assigns = <<Top>> /\ build_dir[Base] = AutoBuildDir(Top))
    /\ \A c \in Types : initialized_attributes[c] => build_dir[c] = build_dir[Base]
C8_Witness ==
    /\ initialized_attributes["x"] /\ initialized_attributes["a"]
    /\ build_dir["x"] = AutoBuildDir(Top)
    /\ root_assigns = <<Top>>

\* C9: a descriptor that is not the top passes over every entry written with a
\* purpose other than hardware (no setup, no generation); the top sets the
\* entry up, or generates it, for the written purpose.
C9_OnlyTopPullsNonHardware ==
    \A r \in sub_log :
        (r.decl \notin {"absent", "hardware"})
        => IF r.cls # Top THEN r.outcome = "skip"
           ELSE /\ r.kind = "module" => (r.outcome = "setup" /\ r.purpose = r.decl)
                /\ r.kind = "dict" => (r.outcome = "generate" /\ r.purpose = r.decl)
C9_Witness ==
    /\ \E r \in sub_log : r.cls # Top /\ r.decl = "simulation" /\ r.outcome = "skip"
    /\ \E r \in sub_log : r.cls = Top /\ r.decl = "simulation" /\ r.outcome = "setup"

\* C10: an entry that is neither a descriptor type nor a dictionary always ends
\* setup in the unknown-type error that names the descriptor; it is never
\* passed over.
C10_UnknownEntryFatal ==
    \A r \in sub_log :
        r.kind \in {"other_class", "non_class"}
        => (r.outcome = "unknown_type" /\ err = Error("unknown_type", r.cls))

NoRepeat(q) == \A i, j \in 1..Len(q) : q[i] = q[j] => i = j

\* C12 as stated: the setup body of a descriptor type has run at most once for
\* each purpose, and a type whose history contains hardware has had its body
\* run at most once in total.
C12_OnceInTotalWithHardware ==
    \A c \in Types :
        /\ NoRepeat(body_runs[c])
        /\ "hardware" \in Range(HistOf(c)) => Len(body_runs[c]) <= 1

\* C12: the setup body of a descriptor type has run at most once for each
\* purpose, and never again after it ran for hardware: hardware is the last of
\* its runs, the only one when it is the first.
C12_SetupCountBound ==
    \A c \in Types :
        /\ NoRepeat(body_runs[c])
        /\ \A i \in 1..Len(body_runs[c]) :
               body_runs[c][i] = "hardware" => i = Len(body_runs[c])
C12_Witness ==
    /\ status = "done"
    /\ body_runs["a"] = <<"simulation", "hardware">>
    /\ body_runs[Top] = <<"hardware">>

\* The source file of class m that lands where g is when by copies it.
LandsOn(s, m, by, g) ==
    /\ Rename(s.core, m, by) = g.core
    /\ s.stem = g.stem
    /\ IF s.dir = "hardware/src"
       THEN s.path = "" /\ g.dir \in {PURPOSE_DIRS[p] : p \in DOMAIN PURPOSE_DIRS}
       ELSE g.dir = DestDir(s.dir, s.path)

OtherSrcDirs == {PURPOSE_DIRS[p] : p \in DOMAIN PURPOSE_DIRS} \ {"hardware/src"}
SamePath(g, h) == g.root = h.root /\ g.dir = h.dir /\ g.core = h.core /\ g.stem = h.stem
\* The files of fs under another purpose's source destination that are under
\* the hardware source destination too.
Duplicates(fs) ==
    {g \in fs : /\ g.dir \in OtherSrcDirs
                /\ \E h \in fs : h.root = g.root /\ h.dir = "hardware/src"
                                   /\ h.core = g.core /\ h.stem = g.stem}

\* C14: once setup_as_top_module has completed no file is both under the
\* hardware source destination and under the simulation or fpga one; the step
\* that completes it removes nothing but the duplicates from the other
\* destinations, and keeps every file under the hardware source destination.
C14_DedupPostcondition ==
    /\ [](status = "done" => Duplicates(files) = {})
    /\ [][(status = "running" /\ status' = "done")
          => /\ \A g \in files : g.dir = "hardware/src"
                    => \E h \in files' : SamePath(g, h)
             /\ \A g \in files : (~\E h \in files' : SamePath(g, h))
                    => (g.dir \in OtherSrcDirs
                        /\ \E h \in files' : h.root = g.root /\ h.dir = "hardware/src"
                                               /\ h.core = g.core /\ h.stem = g.stem)]_vars
C14_Witness ==
    /\ status = "done"
    /\ body_runs["a"] = <<"simulation", "hardware">>
    /\ \E g \in files : g.dir = "hardware/src" /\ g.core = "a" /\ g.stem = "core.v"
    /\ ~\E g \in files : g.dir \in OtherSrcDirs /\ g.core = "a" /\ g.stem = "core.v"
    /\ \E g \in files : g.dir \in OtherSrcDirs /\ g.stem = "tb.v"

\* C20: source aggregation never raises for a directory that is missing under
\* the source root of a class: the directory is passed over.
C20_MissingDirsTolerated == err.kind # "file_not_found"

\* update_dict_list has returned.
MergeDone == merge_args # <<>> /\ item_idx = Len(new_items) + 1
\* The entries of L and N in the order they contribute.
Contributors == merge_args[1] \o merge_args[2]
NamesOf(q) == {q[i]["name"] : i \in 1..Len(q)}
\* The contributors of name n that supply key k.
Suppliers(n, k) ==
    {j \in 1..Len(Contributors) :
        Contributors[j]["name"] = n /\ k \in DOMAIN Contributors[j]}
Latest(S) == CHOOSE j \in S : \A i \in S : i <= j
FirstIn(q, n) == CHOOSE i \in 1..Len(q) :
    q[i]["name"] = n /\ \A j \in 1..(i - 1) : q[j]["name"] # n

\* C11: after update_dict_list(L, N), L having pairwise distinct names, the
\* list has one entry for each name of L and N; every key some contributor of
\* the name supplies is there with the value of the latest one that supplies
\* it, and no other key; the entries of L keep their positions and the new
\* names follow in the order they first occur in N.
C11_MergeLaw ==
    MergeDone =>
        LET L == merge_args[1]
            N == merge_args[2]
        IN  /\ NamesOf(dict_list) = NamesOf(L) \cup NamesOf(N)
            /\ Len(dict_list) = Cardinality(NamesOf(L) \cup NamesOf(N))
            /\ \A i \in 1..Len(dict_list) :
                   LET n == dict_list[i]["name"]
                   IN  /\ DOMAIN dict_list[i] =
                              {"name"} \cup {k \in DOMAIN KeyValues : Suppliers(n, k) # {}}
                       /\ \A k \in DOMAIN dict_list[i] \ {"name"} :
                              dict_list[i][k] = Contributors[Latest(Suppliers(n, k))][k]
            /\ \A i \in 1..Len(L) : dict_list[i]["name"] = L[i]["name"]
            /\ \A i, j \in (Len(L) + 1)..Len(dict_list) :
                   i < j => FirstIn(N, dict_list[i]["name"]) < FirstIn(N, dict_list[j]["name"])
C11_Witness ==
    /\ MergeDone
    /\ Len(dict_list) > Len(merge_args[1])
    /\ \E i \in 1..Len(merge_args[1]) : \E j \in 1..Len(merge_args[2]) :
          /\ merge_args[1][i]["name"] = merge_args[2][j]["name"]
          /\ dict_list[i] # merge_args[1][i]
          /\ dict_list[i] # merge_args[2][j]

\* create_systemv has written the file.
Written == cs_pc = "written"
Out == systemv_file.lines
\* Where the lines of instance i with one of the tags stand in a list of lines.
Positions(lines, tags, i) ==
    {p \in 1..Len(lines) : lines[p].inst = i /\ lines[p].tag \in tags}
IsLast(p, S) == \A q \in S : q <= p
Separator(p, S) == IF IsLast(p, S) THEN <<>> ELSE <<",">>
ValueOf(instance, param) ==
    LET k == CHOOSE k \in 1..Len(instance.params) : instance.params[k].param = param
    IN  instance.params[k].value

\* C15: in the produced file every line of an instance's port connections,
\* reserved and regular together, is the connection followed by one comma, but
\* the last in reading order, which is the connection alone; the same holds
\* for the entries of its parameter list. The commas of the signal expression
\* and of the parameter value are all there.
C15_TrailingCommaPolicy ==
    Written =>
        \A i \in 1..Len(peripherals_list) :
            LET conns == Positions(Out, {"reserved", "pio"}, i)
                params == Positions(Out, {"param"}, i)
            IN  /\ \A p \in conns :
                       Out[p].text =
                           (IF Out[p].tag = "reserved"
                            THEN <<"      ">> \o ReservedConnection(Out[p].of)
                            ELSE <<"      .", Out[p].of, "(">>
                                 \o PortMapping(peripherals_list[i], Out[p].of) \o <<")">>)
                           \o Separator(p, conns) \o <<"\n">>
                /\ \A p \in params :
                       Out[p].text =
                           <<"      .", Out[p].of, "(">>
                           \o ValueOf(peripherals_list[i], Out[p].of) \o <<")">>
                           \o Separator(p, params) \o <<"\n">>
C15_Witness ==
    /\ Written
    /\ \E i, j \in 1..Len(peripherals_list) :
          /\ peripherals_list[i].type = "U" /\ Len(peripherals_list[i].params) = 2
          /\ peripherals_list[j].type = "V"
          /\ \E p \in Positions(Out, {"pio"}, i) :
                 Out[p].of = "x" /\ IsLast(p, Positions(Out, {"pio"}, i))
                 /\ "," \in Range(Out[p].text)

Repeat(n, x) == [k \in 1..n |-> x]
\* The lines an instance has in the file, from top to bottom.
ExpectedTags(instance) ==
    <<"blank", "comment", "blank", "type">>
    \o (IF instance.params # <<>>
        THEN <<"params_open">> \o Repeat(Len(instance.params), "param") \o <<"params_close">>
        ELSE <<>>)
    \o <<"name">>
    \o Repeat(Len(PioSignals(instance.type)), "pio")
    \o Repeat(Len(ReservedSignals(instance.type)), "reserved")
    \o <<"close">>
TagsOf(lines, i) ==
    LET own == SelectSeq(lines, LAMBDA l : l.inst = i)
    IN  [k \in 1..Len(own) |-> own[k].tag]

\* C16: the lines of an instance stand in the produced file, from top to
\* bottom, as: blank line, name comment, blank line, type name, the parameter
\* block exactly when the instance has overrides, instance name, regular
\* connections, reserved connections, closing parenthesis.
C16_InstanceReadingOrder ==
    Written =>
        \A i \in 1..Len(peripherals_list) :
            TagsOf(Out, i) = ExpectedTags(peripherals_list[i])
C16_Witness ==
    /\ Written
    /\ \E i, j \in 1..Len(peripherals_list) :
          /\ peripherals_list[i].type = "T" /\ peripherals_list[i].params # <<>>
          /\ peripherals_list[j].params = <<>>
          /\ "params_open" \in Range(TagsOf(Out, i))
          /\ "params_open" \notin Range(TagsOf(Out, j))

\* The first line of the template kind that contains the word.
AnchorAt(lines, word) ==
    CHOOSE p \in 1..Len(lines) :
        /\ lines[p].tag = "template" /\ Contains(lines[p], word)
        /\ \A q \in 1..(p - 1) : ~(lines[q].tag = "template" /\ Contains(lines[q], word))
AllTags == {"close", "reserved", "pio", "name", "params_close", "param", "params_open",
            "type", "blank", "comment"}

\* C17: the produced file has one block for each of the n instances, with the
\* instance's type name, its name and one connection for each regular port;
\* every line of a block is after the end of the port list and before
\* endmodule, the blocks are not interleaved and follow the peripheral list,
\* and the lines of the template are all there in their order.
C17_InstancePlacement ==
    Written =>
        LET n == Len(peripherals_list)
        IN  /\ Cardinality({p \in 1..Len(Out) : Out[p].tag = "type"}) = n
            /\ \A i \in 1..n :
                   /\ \E p \in 1..Len(Out) :
                          /\ Positions(Out, {"type"}, i) = {p}
                          /\ Contains(Out[p], TopOf(peripherals_list[i].type))
                   /\ \E p \in 1..Len(Out) :
                          /\ Positions(Out, {"name"}, i) = {p}
                          /\ Contains(Out[p], peripherals_list[i].name)
                   /\ \A sig \in Range(PioSignals(peripherals_list[i].type)) :
                          Cardinality({p \in Positions(Out, {"pio"}, i) : Out[p].of = sig}) = 1
                   /\ \A p \in Positions(Out, AllTags, i) :
                          AnchorAt(Out, ");") < p /\ p < AnchorAt(Out, "endmodule")
            /\ \A p, q \in 1..Len(Out) :
                   (p < q /\ Out[p].inst > 0 /\ Out[q].inst > 0) => Out[p].inst <= Out[q].inst
            /\ SelectSeq(Out, LAMBDA l : l.tag = "template") = template_file.lines
C17_Witness ==
    /\ Written
    /\ Len(peripherals_list) = MaxInst
    /\ internal_wires # <<>>
    /\ Len(template_file.lines) > 4
    /\ \E p \in 1..Len(Out) : Out[p].inst = MaxInst /\ Out[p].tag = "pio"

\* C18: when the template is not there, create_systemv returns without an
\* error, leaves the output file as it was, and changes nothing else.
C18_MissingTemplateNoOp ==
    [][~template_file.exists
       => /\ cs_pc' = "returned"
          /\ cs_err' = NoError
          /\ UNCHANGED <<template_file, systemv_file, peripherals_list, internal_wires,
                         template_contents, included_peripherals, start_index,
                         first_reversed_signal, instance_idx, signal_idx, nonCsVars>>]_vars
C18_Witness ==
    /\ cs_pc = "returned"
    /\ ~template_file.exists
    /\ systemv_file = OldFile
    /\ peripherals_list # <<>>

\* insert_header_files has returned.
HeadersDone == cs_pc \in {"instances", "reserved", "pio", "name", "write", "written"}

\* C19: insert_header_files adds one include line for each peripheral type of
\* the list, however many instances have the type, and none for the other
\* types; the include lines stand together right after the header marker.
C19_OneIncludePerType ==
    HeadersDone =>
        LET tc == template_contents
            inc == {p \in 1..Len(tc) : tc[p].tag = "include"}
        IN  /\ \A t \in PeripheralTypes :
                   Cardinality({p \in inc : tc[p].of = t /\ tc[p] = IncludeLine(t)}) =
                       IF \E i \in 1..Len(peripherals_list) : peripherals_list[i].type = t
                       THEN 1 ELSE 0
            /\ Cardinality(inc) =
                   Cardinality({peripherals_list[i].type : i \in 1..Len(peripherals_list)})
            /\ inc = (AnchorAt(tc, "PHEADER") + 1)..(AnchorAt(tc, "PHEADER") + Cardinality(inc))
C19_Witness ==
    /\ Written
    /\ Len(peripherals_list) = 2
    /\ peripherals_list[1].type = peripherals_list[2].type
    /\ Cardinality({p \in 1..Len(Out) : Out[p].tag = "include"}) = 1

\* C21: a descriptor can be set up for any of the purposes hardware,
\* simulation, fpga, embedded and documentation: get_purpose_dir has a
\* directory for each, and no setup ends in the unknown-purpose failure.
C21_EveryPurposeHasDir == err.kind # "unknown_purpose"

\* o occurs in t.
Occurs(t, o) == \E i \in 1..(Len(t) - Len(o) + 1) : SubSeq(t, i, i + Len(o) - 1) = o
\* t with every occurrence of o replaced by n and every occurrence of u by m,
\* the occurrences taken in t itself from the left; the other characters stay.
RECURSIVE Renamed(_, _, _, _, _)
Renamed(t, o, n, u, m) ==
    IF t = <<>> THEN t
    ELSE IF Len(t) >= Len(o) /\ SubSeq(t, 1, Len(o)) = o
         THEN n \o Renamed(SubSeq(t, Len(o) + 1, Len(t)), o, n, u, m)
         ELSE IF Len(t) >= Len(u) /\ SubSeq(t, 1, Len(u)) = u
              THEN m \o Renamed(SubSeq(t, Len(u) + 1, Len(t)), o, n, u, m)
              ELSE <<Head(t)>> \o Renamed(Tail(t), o, n, u, m)
\* The copy holds no old name and is the source with its occurrences replaced.
RenamedWell(src, dst, old, new) ==
    /\ ~Occurs(dst, old)
    /\ ~Occurs(dst, Upper(old))
    /\ dst = Renamed(src, old, new, Upper(old), Upper(new))
CharsOf(t) == {t[i] : i \in 1..Len(t)}
\* The new name shares no letter with the old one, in either case.
NoSharedLetter(old, new) ==
    (CharsOf(new) \cup CharsOf(Upper(new))) \cap (CharsOf(old) \cup CharsOf(Upper(old))) = {}

Bodies == {k \in 1..Len(stack) : stack[k].pc # "setup"}
\* The frame is in the first setup body of its class.
FirstBody(f) == Len(body_runs[f.cls]) = 1
\* The files the setup of class c copied or generated.
FilesBy(c) == {g \in files : g.by = c /\ g.from # "LIB"}
\* The entries of its submodule_list the body of frame f has processed.
Processed(f) == {e.idx : e \in {l \in sub_log : l.cls = f.cls /\ l.body = f.purpose}}

\* C23 as stated: while a dependency's setup that the body of D started is
\* still running, no file of D has been copied or generated.
C23_NoFileBeforeDependencies ==
    \A k \in Bodies : (k > 1 /\ FirstBody(stack[k])) => FilesBy(stack[k].cls) = {}

\* C23: inside the setup body of D for p, p is in D's history; the entries of
\* submodule_list are processed in list order, all of them before the sources
\* are copied; and no file of D is copied or generated while the loop over
\* submodule_list, or a dependency setup it started, is still running.
C23_StepOrder ==
    \A k \in Bodies :
        LET f == stack[k]
        IN  /\ f.purpose \in Range(HistOf(f.cls))
            /\ IF f.pc = "submodules"
               THEN /\ Processed(f) = 1..(f.idx - 1)
                    /\ FirstBody(f) => FilesBy(f.cls) = {}
               ELSE Processed(f) = 1..Len(SubmoduleListOf(f.cls))
C23_Witness ==
    /\ Len(stack) = 2
    /\ stack[2].cls = Top /\ stack[2].pc = "submodules" /\ stack[2].idx = 3
    /\ stack[1].cls = "a" /\ stack[1].pc = "generate_files"
    /\ FilesBy("a") # {}
    /\ \E l \in sub_log : l.cls = "a" /\ l.outcome = "setup"

\* The number of setup bodies that have run.
RECURSIVE BodyCount(_)
BodyCount(cs) ==
    IF cs = {} THEN 0
    ELSE LET c == CHOOSE c \in cs : TRUE IN Len(body_runs[c]) + BodyCount(cs \ {c})

\* C24: setup_as_top_module terminates on every dependency graph, cyclic ones
\* included, and the number of setup bodies run never exceeds the number of
\* (type, purpose) pairs.
C24_Terminates ==
    /\ [](BodyCount(Types) <= Cardinality(Types) * Cardinality(Purposes))
    /\ <>(status \in {"done", "error"})
\* A cyclic graph has been set up to the end: a requests x and x requests a.
C24_Witness ==
    /\ status = "done"
    /\ \E l \in sub_log : l.cls = "a" /\ l.target = "x" /\ l.outcome = "setup"
    /\ \E l \in sub_log : l.cls = "x" /\ l.target = "a" /\ l.outcome = "setup"
    /\ <<"a", "hardware">> \in skipped

\* The purposes the setup body of class c has run for.
BodyPurposes(c) == Range(body_runs[c])
AutoInterfaces == {"iob_s_port", "iob_s_s_portmap"}

\* C25: inside the setup body of D for p, nested setups returned or not,
\* get_setup_purpose() on D is p; so D's hardware sources and its two standard
\* interface snippets go to a purpose D's body ran for, and the setup of
\* iob_ctls that D's body requests is for p.
C25_LatestIsCurrent ==
    /\ \A k \in Bodies : GetSetupPurpose(stack[k].cls) = stack[k].purpose
    /\ \A k \in Bodies :
           (stack[k].pc = "auto_gen" /\ k > 1 /\ stack[k - 1].cls = "iob_ctls")
               => stack[k - 1].purpose = stack[k].purpose
    /\ \A g \in files :
           g.stem = "core.v" => \E p \in BodyPurposes(g.by) : g.dir = GetPurposeDir(p)
    /\ \A g \in generated :
           g.interface \in AutoInterfaces => g.purpose \in BodyPurposes(g.cls)
C25_Witness ==
    \E k \in Bodies :
        /\ body_runs[stack[k].cls] = <<"simulation", "hardware">>
        /\ stack[k].pc = "generate_files"
        /\ \E l \in sub_log : l.cls = stack[k].cls /\ l.body = "hardware"
                                /\ l.outcome = "setup"
        /\ \E g \in generated : g.cls = stack[k].cls /\ g.interface \in AutoInterfaces
                                  /\ g.purpose = "hardware"
        /\ \E g \in files : g.by = stack[k].cls /\ g.stem = "core.v"
                             /\ g.dir = GetPurposeDir("hardware")

\* The descriptor of class c declares registers.
DeclaresRegs(c) == \E d \in Declared(c) : d.regs # <<>>
\* The body in frame f is past _auto_add_settings.
AutoAdded(f) == f.pc = "generate_files"
\* iob_ctls has been set up for p or for hardware.
CtlsSetUpFor(p) == {p, "hardware"} \cap Range(HistOf("iob_ctls")) # {}
\* Both standard snippets of class c have been generated for p.
SnippetsFor(c, p) ==
    \A i \in AutoInterfaces : [cls |-> c, interface |-> i, purpose |-> p] \in generated
\* A descriptor with registers gets iob_ctls and the snippets for its purpose.
RegsTrigger ==
    \A k \in Bodies :
        LET f == stack[k]
        IN  (AutoAdded(f) /\ regs[f.cls] # <<>> /\ f.cls # "iob_ctls")
                => (SnippetsFor(f.cls, f.purpose) /\ CtlsSetUpFor(f.purpose))
\* A descriptor without registers gets neither.
NoRegsNoTrigger ==
    /\ \A k \in Bodies : stack[k].pc = "auto_gen" => DeclaresRegs(stack[k].cls)
    /\ \A g \in generated : g.interface \in AutoInterfaces => DeclaresRegs(g.cls)

\* C26: the setup body of a descriptor with registers, iob_ctls excepted, run
\* for p requests the setup of iob_ctls for p and generates the two standard
\* snippets for p, so iob_ctls is then set up for p or for hardware; a
\* descriptor without registers triggers neither.
C26_AutoCtlsOnlyWithRegs == RegsTrigger /\ NoRegsNoTrigger

\* C27: the build directory is created at most once in a run, for the
\* top-level descriptor only, in its first setup, before its purpose is
\* recorded and before any setup body has run; the assertion of
\* __create_build_dir never fails.
C27_BuildDirTopOnlyOnce ==
    /\ Len(build_dir_runs) <= 1
    /\ \A i \in 1..Len(build_dir_runs) :
           /\ build_dir_runs[i].cls = Top
           /\ build_dir_runs[i].is_top
           /\ build_dir_runs[i].hist = <<>>
           /\ build_dir_runs[i].ran = {}
    /\ err.kind # "not_top_module"
    /\ \A g \in files : g.from = "LIB" => g.by = Top
C27_Witness ==
    /\ status = "done"
    /\ Len(build_dir_runs) = 1
    /\ \E g \in files : g.from = "LIB" /\ g.stem = "Makefile"
    /\ body_runs["a"] = <<"simulation", "hardware">>
    /\ body_runs["x"] # <<>>

\* The types of the include lines, read from the top of the file.
RECURSIVE IncludeOrder(_)
IncludeOrder(lines) ==
    IF lines = <<>> THEN <<>>
    ELSE (IF Head(lines).tag = "include" THEN <<Head(lines).of>> ELSE <<>>)
         \o IncludeOrder(Tail(lines))
\* The types of the peripheral list in the order they are first seen.
RECURSIVE FirstSeen(_, _)
FirstSeen(pl, seen) ==
    IF pl = <<>> THEN <<>>
    ELSE IF Head(pl).type \in seen THEN FirstSeen(Tail(pl), seen)
         ELSE <<Head(pl).type>> \o FirstSeen(Tail(pl), seen \cup {Head(pl).type})

\* C28 as stated: the include lines stand in the file, read top to bottom, in
\* the order in which their types are first seen in the peripheral list.
C28_FirstSeenOrder ==
    HeadersDone => IncludeOrder(template_contents) = FirstSeen(peripherals_list, {})

\* C28: the include lines stand in the file, read top to bottom, in the
\* reverse of the order in which their types are first seen in the peripheral
\* list: each is inserted right after the header marker, above the ones before.
C28_ReverseFirstSeenOrder ==
    /\ HeadersDone =>
           IncludeOrder(template_contents) = Reverse(FirstSeen(peripherals_list, {}))
    /\ Written => IncludeOrder(Out) = Reverse(FirstSeen(peripherals_list, {}))
C28_Witness ==
    /\ Written
    /\ Len(peripherals_list) = 2
    /\ peripherals_list[1].type # peripherals_list[2].type
    /\ IncludeOrder(Out) = <<peripherals_list[2].type, peripherals_list[1].type>>

====
